---------------------------- MODULE Spec2Model ----------------------------
(***************************************************************************)
(* A model of evaluate_results_of_NewCodeBench.py: the batch evaluator      *)
(* (main, run_file_and_capture and the child process it runs), the two      *)
(* generated test drivers (__run_tests__ of the function harness and of the *)
(* class harness), and the pure helpers they use.                           *)
(*                                                                          *)
(* Five state machines share the module:                                    *)
(*   Spec / FairSpec   the evaluator and its child process                  *)
(*   HarnessSpec       one run of a generated driver against a candidate    *)
(*   ClassifierSpec    is_class_based_task applied to drawn case lists      *)
(*   ExtractSpec       extract_code applied to drawn responses              *)
(*   EquivalenceSpec   results_equivalent applied to drawn pairs of values  *)
(***************************************************************************)
EXTENDS Integers, Sequences, FiniteSets, TLC

VARIABLES
    \* ---- evaluator (main + run_file_and_capture) ----
    tasks,        \* the lines of the results file, in order
    cur,          \* 1-based index of the line main is working on
    pc,           \* position of main / run_file_and_capture
    tmp_path,     \* run_file_and_capture's local: NoPath or the file's name
    files,        \* names of the transient files that exist on disk
    child,        \* the child process of the current run_file_and_capture call
    timer,        \* "idle", "armed" (deadline pending), "expired"
    launches,     \* child processes launched for the current task
    ret,          \* (success, output) of the current run_file_and_capture call
    evaluated, passed, total,   \* main's counters
    report,       \* the records written to the report file
    \* ---- generated driver (__run_tests__) ----
    hshape,       \* "func" or "class": which harness was generated
    hglobals,     \* the candidate's module namespace, in definition order
    CASES,        \* the embedded CASES literal
    hpc,          \* position of __run_tests__
    fn,           \* the resolved callable (function driver) / class
    case_idx,     \* loop index over CASES (0-based, as enumerate)
    step,         \* loop index over the steps of a class case (0-based)
    hpassed, htotal,            \* the driver's counters
    obj,          \* the live instance of the class driver, NoObj before step 0
    instances,    \* instance id -> set of case indexes whose calls wrote its state
    calls,        \* log of every candidate call the driver made
    hstdout,      \* lines the driver printed to standard output
    hexit,        \* exit status of the process, NoExit while it runs
    diag,         \* the AssertionError raised, NoDiag if none
    \* ---- classifier ----
    test_cases,   \* argument of is_class_based_task
    cls_result,   \* [done, value]: its result once it has returned
    \* ---- pure helpers ----
    segments,     \* how the response was written: prose and fenced blocks
    response,     \* argument of extract_code: the text of the response
    extracted,    \* [done, value]: what extract_code returned
    arg_result,   \* first argument of results_equivalent
    arg_expected, \* second argument of results_equivalent
    eq_ret        \* what results_equivalent and its two copies returned

evalVars == <<tasks, cur, pc, tmp_path, files, child, timer, launches, ret,
              evaluated, passed, total, report>>
harnessVars == <<hshape, hglobals, CASES, hpc, fn, case_idx, step, hpassed,
                 htotal, obj, instances, calls, hstdout, hexit, diag>>
clsVars == <<test_cases, cls_result>>
pureVars == <<segments, response, extracted, arg_result, arg_expected, eq_ret>>
vars == <<evalVars, harnessVars, clsVars, pureVars>>

(***************************************************************************)
(* Bounds of the model.                                                     *)
(***************************************************************************)
MaxTasks == 2      \* lines in a batch
MaxLiveTasks == 1  \* lines in a batch whose progress is checked (FairSpec)
MaxCases == 2      \* cases embedded in one harness
MaxSteps == 3      \* steps (constructor + method calls) of one class case
MaxOuter == 2      \* length of a drawn first input in the classifier
MaxSegs == 2       \* prose pieces and fenced blocks in a drawn response
MaxSeqLen == 2     \* length of a drawn list or tuple

(***************************************************************************)
(* JSON / Python values.  A value is a record tagged by its kind; numbers   *)
(* are n + eps * (1e-9 / TolUnits), so that the 1e-9 tolerance of           *)
(* results_equivalent is TolUnits units of eps.  A number with the field    *)
(* big stands for 2^53 + n: an int of any size is exact, a float (a double, *)
(* 53 bits of mantissa) in [2^53, 2^54) is an even integer.                 *)
(***************************************************************************)
TolUnits == 2

NoneV == [k |-> "none"]
BoolV(b) == [k |-> "bool", b |-> b]
IntV(n) == [k |-> "int", n |-> n]
FloatV(n, e) == [k |-> "float", n |-> n, eps |-> e]
BigIntV(n) == [k |-> "int", n |-> n, big |-> TRUE]
BigFloatV(n) == [k |-> "float", n |-> n, eps |-> 0, big |-> TRUE]
StrV(s) == [k |-> "str", chars |-> s]
ListV(s) == [k |-> "list", items |-> s]
TupleV(s) == [k |-> "tuple", items |-> s]
DictV(f) == [k |-> "dict", m |-> f]
\* a set, which no JSON text yields but a candidate can return
SetV(S) == [k |-> "set", elems |-> S]

IsNone(v) == v.k = "none"
IsStr(v) == v.k = "str"
IsList(v) == v.k = "list"
IsDict(v) == v.k = "dict"
IsSet(v) == v.k = "set"
IsSeq(v) == v.k \in {"list", "tuple"}
\* isinstance(v, (int, float)): bool is a subclass of int
IsNum(v) == v.k \in {"bool", "int", "float"}

NumN(v) == IF v.k = "bool" THEN (IF v.b THEN 1 ELSE 0) ELSE v.n
NumEps(v) == IF v.k = "float" THEN v.eps ELSE 0
Big(v) == "big" \in DOMAIN v

\* float(v): an int in [2^53, 2^54) is rounded to the nearest even integer,
\* a tie going to the neighbour with the even mantissa
ToFloat(v) ==
    IF v.k = "float" THEN v
    ELSE IF ~Big(v) THEN FloatV(NumN(v), 0)
    ELSE IF v.n % 2 = 0 THEN BigFloatV(v.n)
    ELSE IF v.n % 4 = 1 THEN BigFloatV(v.n - 1)
    ELSE BigFloatV(v.n + 1)

Abs(x) == IF x < 0 THEN -x ELSE x

\* abs(a - b) < 1e-9 as Python computes it: int - int is exact, any other
\* combination subtracts the two operands as floats
DiffBelowTol(a, b) ==
    LET mixed == a.k = "float" \/ b.k = "float"
        x == IF mixed THEN ToFloat(a) ELSE a
        y == IF mixed THEN ToFloat(b) ELSE b
    IN  /\ Big(x) = Big(y)
        /\ NumN(x) = NumN(y)
        /\ Abs(NumEps(x) - NumEps(y)) < TolUnits

IsSpace(c) == c \in {" ", "\n"}
NoStrip(s) == s

\* str.strip(): drop leading and trailing whitespace
RECURSIVE LStrip(_)
LStrip(s) == IF s # <<>> /\ IsSpace(Head(s)) THEN LStrip(Tail(s)) ELSE s
RECURSIVE RStrip(_)
RStrip(s) ==
    IF s # <<>> /\ IsSpace(s[Len(s)]) THEN RStrip(SubSeq(s, 1, Len(s) - 1)) ELSE s
Strip(s) == RStrip(LStrip(s))

PyEqAtomsOnly(a, b) ==
    CASE IsNone(a) /\ IsNone(b) -> TRUE
      [] IsNum(a) /\ IsNum(b) ->
            Big(a) = Big(b) /\ NumN(a) = NumN(b) /\ NumEps(a) = NumEps(b)
      [] IsStr(a) /\ IsStr(b) -> a.chars = b.chars
      [] OTHER -> FALSE

\* Python's == on these values
RECURSIVE PyEq(_, _)
PyEq(a, b) ==
    CASE IsNone(a) /\ IsNone(b) -> TRUE
      [] IsNum(a) /\ IsNum(b) ->
            Big(a) = Big(b) /\ NumN(a) = NumN(b) /\ NumEps(a) = NumEps(b)
      [] IsStr(a) /\ IsStr(b) -> a.chars = b.chars
      [] IsSeq(a) /\ IsSeq(b) ->
            /\ a.k = b.k
            /\ Len(a.items) = Len(b.items)
            /\ \A i \in 1..Len(a.items) : PyEq(a.items[i], b.items[i])
      [] IsDict(a) /\ IsDict(b) ->
            /\ DOMAIN a.m = DOMAIN b.m
            /\ \A key \in DOMAIN a.m : PyEq(a.m[key], b.m[key])
      [] IsSet(a) /\ IsSet(b) ->
            /\ \A x \in a.elems : \E y \in b.elems : PyEq(x, y)
            /\ \A y \in b.elems : \E x \in a.elems : PyEq(x, y)
      [] OTHER -> FALSE

RECURSIVE results_equivalent_deep(_, _)
results_equivalent_deep(result, expected) ==
    IF PyEq(result, expected) THEN TRUE
    ELSE IF IsSeq(result) /\ IsSeq(expected) THEN
        /\ Len(result.items) = Len(expected.items)
        /\ \A i \in 1..Len(result.items) :
              results_equivalent_deep(result.items[i], expected.items[i])
    ELSE IF IsDict(result) /\ IsDict(expected) THEN
        /\ DOMAIN result.m = DOMAIN expected.m
        /\ \A key \in DOMAIN result.m :
              results_equivalent_deep(result.m[key], expected.m[key])
    ELSE IF IsStr(result) /\ IsStr(expected) THEN
        Strip(result.chars) = Strip(expected.chars)
    ELSE IF IsNum(result) /\ IsNum(expected) THEN
        DiffBelowTol(result, expected)
    ELSE FALSE

results_equivalent_shallow(result, expected) ==
    IF PyEq(result, expected) THEN TRUE
    ELSE IF IsSeq(result) /\ IsSeq(expected) THEN
        /\ Len(result.items) = Len(expected.items)
        /\ \A i \in 1..Len(result.items) : PyEq(result.items[i], expected.items[i])
    ELSE IF IsDict(result) /\ IsDict(expected) THEN
        /\ DOMAIN result.m = DOMAIN expected.m
        /\ \A key \in DOMAIN result.m : PyEq(result.m[key], expected.m[key])
    ELSE IF IsStr(result) /\ IsStr(expected) THEN
        Strip(result.chars) = Strip(expected.chars)
    ELSE IF IsNum(result) /\ IsNum(expected) THEN
        DiffBelowTol(result, expected)
    ELSE FALSE

RECURSIVE results_equivalent_keys_of_first(_, _)
results_equivalent_keys_of_first(result, expected) ==
    IF PyEq(result, expected) THEN TRUE
    ELSE IF IsSeq(result) /\ IsSeq(expected) THEN
        /\ Len(result.items) = Len(expected.items)
        /\ \A i \in 1..Len(result.items) : PyEq(result.items[i], expected.items[i])
    ELSE IF IsDict(result) /\ IsDict(expected) THEN
        /\ DOMAIN result.m \subseteq DOMAIN expected.m
        /\ \A key \in DOMAIN result.m :
              results_equivalent_keys_of_first(result.m[key], expected.m[key])
    ELSE IF IsStr(result) /\ IsStr(expected) THEN
        Strip(result.chars) = Strip(expected.chars)
    ELSE IF IsNum(result) /\ IsNum(expected) THEN
        DiffBelowTol(result, expected)
    ELSE FALSE

SetRuleSubset(result, expected) ==
    \A x \in result.elems : \E y \in expected.elems : PyEq(x, y)

\* line 70: return result == expected
SetRule(result, expected) == PyEq(result, expected)

\* results_equivalent of the evaluator (lines 42-80): direct equality, both
\* None, sequences compared element by element with ==, mappings
\* recursively, sets with ==, text after strip(), numbers within the
\* tolerance, anything else not equivalent.
RECURSIVE results_equivalent(_, _)
results_equivalent(result, expected) ==
    IF PyEq(result, expected) THEN TRUE
    ELSE IF IsNone(result) /\ IsNone(expected) THEN TRUE
    ELSE IF IsSeq(result) /\ IsSeq(expected) THEN
        /\ Len(result.items) = Len(expected.items)
        /\ \A i \in 1..Len(result.items) : PyEq(result.items[i], expected.items[i])
    ELSE IF IsDict(result) /\ IsDict(expected) THEN
        /\ DOMAIN result.m = DOMAIN expected.m
        /\ \A key \in DOMAIN result.m :
              results_equivalent(result.m[key], expected.m[key])
    ELSE IF IsSet(result) /\ IsSet(expected) THEN
        SetRule(result, expected)
    ELSE IF IsStr(result) /\ IsStr(expected) THEN
        Strip(result.chars) = Strip(expected.chars)
    ELSE IF IsNum(result) /\ IsNum(expected) THEN
        DiffBelowTol(result, expected)
    ELSE FALSE

\* the copy of results_equivalent in the function harness (lines 117-136):
\* the same rules in the same order, without the rule for sets
RECURSIVE results_equivalent_function_harness(_, _)
results_equivalent_function_harness(result, expected) ==
    IF PyEq(result, expected) THEN TRUE
    ELSE IF IsNone(result) /\ IsNone(expected) THEN TRUE
    ELSE IF IsSeq(result) /\ IsSeq(expected) THEN
        /\ Len(result.items) = Len(expected.items)
        /\ \A i \in 1..Len(result.items) : PyEq(result.items[i], expected.items[i])
    ELSE IF IsDict(result) /\ IsDict(expected) THEN
        /\ DOMAIN result.m = DOMAIN expected.m
        /\ \A key \in DOMAIN result.m :
              results_equivalent_function_harness(result.m[key], expected.m[key])
    ELSE IF IsStr(result) /\ IsStr(expected) THEN
        Strip(result.chars) = Strip(expected.chars)
    ELSE IF IsNum(result) /\ IsNum(expected) THEN
        DiffBelowTol(result, expected)
    ELSE FALSE

\* the copy of results_equivalent in the class harness (lines 231-250)
RECURSIVE results_equivalent_class_harness(_, _)
results_equivalent_class_harness(result, expected) ==
    IF PyEq(result, expected) THEN TRUE
    ELSE IF IsNone(result) /\ IsNone(expected) THEN TRUE
    ELSE IF IsSeq(result) /\ IsSeq(expected) THEN
        /\ Len(result.items) = Len(expected.items)
        /\ \A i \in 1..Len(result.items) : PyEq(result.items[i], expected.items[i])
    ELSE IF IsDict(result) /\ IsDict(expected) THEN
        /\ DOMAIN result.m = DOMAIN expected.m
        /\ \A key \in DOMAIN result.m :
              results_equivalent_class_harness(result.m[key], expected.m[key])
    ELSE IF IsStr(result) /\ IsStr(expected) THEN
        Strip(result.chars) = Strip(expected.chars)
    ELSE IF IsNum(result) /\ IsNum(expected) THEN
        DiffBelowTol(result, expected)
    ELSE FALSE

\* bool(v) for the values a step's argument list can be
Truthy(v) ==
    CASE IsNone(v) -> FALSE
      [] IsNum(v) -> ~(NumN(v) = 0 /\ NumEps(v) = 0)
      [] IsStr(v) -> v.chars # <<>>
      [] IsSeq(v) -> v.items # <<>>
      [] IsDict(v) -> DOMAIN v.m # {}
      [] OTHER -> TRUE

(***************************************************************************)
(* is_class_based_task.  A case is a pair <<input, output>>.                *)
(***************************************************************************)
is_class_based_task_no_args_check(cases) ==
    IF cases = <<>> THEN FALSE
    ELSE LET first_input == cases[1][1] IN
         /\ IsList(first_input)
         /\ Len(first_input.items) = 2
         /\ IsList(first_input.items[1])
         /\ Len(first_input.items[1].items) > 0
         /\ IsStr(first_input.items[1].items[1])

is_class_based_task(cases) ==
    IF cases = <<>> THEN FALSE
    ELSE LET first_input == cases[1][1] IN
         /\ IsList(first_input)
         /\ Len(first_input.items) = 2
         /\ IsList(first_input.items[1])
         /\ IsList(first_input.items[2])
         /\ Len(first_input.items[1].items) > 0
         /\ IsStr(first_input.items[1].items[1])


(***************************************************************************)
(* Output lines of the child.  A line is the exact result line              *)
(* "__RESULT__:<p>/<t>" or some other text, which may or may not contain    *)
(* the substring "__RESULT__".                                              *)
(***************************************************************************)
ResultLine(p, t) ==
    [kind |-> "result", text |-> "__RESULT__:p/t", marker |-> TRUE, p |-> p, t |-> t]
TextLine(text, marker) ==
    [kind |-> "text", text |-> text, marker |-> marker, p |-> 0, t |-> 0]
TimeoutExpiredText == <<TextLine("TimeoutExpired", FALSE)>>
TracebackText == <<TextLine("Traceback", FALSE)>>
\* what a candidate can print that holds the substring without being the line
SpoofLine == TextLine("__RESULT__", TRUE)

\* "__RESULT__" in out
ContainsMarker(out) == \E i \in 1..Len(out) : out[i].marker

(***************************************************************************)
(* Task descriptors (one line of the results file).                         *)
(***************************************************************************)
RECURSIVE NormItems(_)
NormItems(s) ==
    IF s = <<>> THEN <<>>
    ELSE LET t == Head(s) IN
         IF IsDict(t) /\ {"input", "output"} \subseteq DOMAIN t.m
         THEN <<(<<t.m["input"], t.m["output"]>>)>> \o NormItems(Tail(s))
         ELSE NormItems(Tail(s))

normalize_tests(raw_tests) ==
    IF ~IsList(raw_tests) THEN <<>> ELSE NormItems(raw_tests.items)

TestItem(input, output) == DictV([input |-> input, output |-> output])

V1 == IntV(1)
ClassInput == ListV(<<ListV(<<StrV(<<"C">>), StrV(<<"m">>)>>),
                      ListV(<<ListV(<<>>), ListV(<<>>)>>)>>)
ClassOutput == ListV(<<NoneV, V1>>)
FuncTests == ListV(<<TestItem(ListV(<<V1>>), V1)>>)
ClassTests == ListV(<<TestItem(ClassInput, ClassOutput)>>)
\* first case object-shaped, second case a plain function-style case
MixedTests == ListV(<<TestItem(ClassInput, ClassOutput), TestItem(V1, V1)>>)
\* a test list holding nothing usable: an item without "output"
JunkTests == ListV(<<DictV([input |-> V1]), V1>>)

SolveName == StrV(<<"f">>)
SomeCode == <<"c">>
BlankCode == <<" ">>
\* text read from JSON "\ud800": a lone surrogate, which UTF-8 cannot encode
SurrogateCode == <<"c", "U+D800">>

\* a task id read from JSON "\ud800"
SurrogateId == <<"U+D800">>
SomeId == <<"t">>

\* a candidate that keeps state outside its process: its module-level code
\* looks for a file of its own, and when the file is missing creates it and
\* ends with sys.exit(1); with the file there it defines a right solution
StatefulCode == <<"c", "stateful">>
Scripted(t) == t.llm_code = StatefulCode
\* the name of that file: no transient file has it
CandidateFile == -1

Task(ep, test, code) ==
    [entry_point |-> ep, test |-> test, llm_code |-> code, task_id |-> SomeId]

TaskPool ==
    { Task(SolveName, FuncTests, SomeCode),
      Task(SolveName, ClassTests, SomeCode),
      Task(SolveName, MixedTests, SomeCode),
      Task(SolveName, FuncTests, SurrogateCode),
      Task(SolveName, FuncTests, StatefulCode),
      [Task(SolveName, FuncTests, SomeCode) EXCEPT !.task_id = SurrogateId],
      Task(NoneV, FuncTests, SomeCode),
      Task(StrV(<<" ">>), FuncTests, SomeCode),
      Task(SolveName, JunkTests, SomeCode),
      Task(SolveName, FuncTests, BlankCode) }

SkippedIgnoresCode(t) ==
    \/ ~(IsStr(t.entry_point) /\ Strip(t.entry_point.chars) # <<>>)
    \/ normalize_tests(t.test) = <<>>

\* lines 371, 378, 384: the three skip checks of main
EntryPointOk(t) == IsStr(t.entry_point) /\ Strip(t.entry_point.chars) # <<>>
Skipped(t) ==
    \/ ~EntryPointOk(t)
    \/ normalize_tests(t.test) = <<>>
    \/ Strip(t.llm_code) = <<>>

\* v[i] evaluates without raising (i a non-negative int)
CanIndex(v, i) ==
    \/ IsSeq(v) /\ Len(v.items) > i
    \/ IsStr(v) /\ Len(v.chars) > i

\* build_class_test_harness evaluates args[0] and args[1] for every case
BuildClassRaises(cases) ==
    \E j \in 1..Len(cases) : ~CanIndex(cases[j][1], 0) \/ ~CanIndex(cases[j][1], 1)

\* tmp.write(py_code) on a file opened with encoding="utf-8"
Encodable(code) == \A j \in 1..Len(code) : code[j] # "U+D800"

\* line 405: f_out.write on the report file, opened with encoding="utf-8",
\* of the record dumped with ensure_ascii=False
RecordEncodable(t) ==
    /\ Encodable(t.task_id)
    /\ IsStr(t.entry_point) => Encodable(t.entry_point.chars)

NoPath == 0
NoChild == [state |-> "none", phase |-> "none", rc |-> 0,
            stdout |-> <<>>, stderr |-> <<>>]
NoRet == [success |-> FALSE, output |-> <<>>, set |-> FALSE]
Ret(success, output) == [success |-> success, output |-> output, set |-> TRUE]

EvalIdle ==
    /\ tasks = <<>> /\ cur = 1 /\ pc = "done" /\ tmp_path = NoPath
    /\ files = {} /\ child = NoChild /\ timer = "idle" /\ launches = 0
    /\ ret = NoRet /\ evaluated = 0 /\ passed = 0 /\ total = 0
    /\ report = <<>>

EvalStart(most) ==
    /\ tasks \in UNION {[1..n -> TaskPool] : n \in 1..most}
    /\ cur = 1 /\ pc = "next" /\ tmp_path = NoPath
    /\ files = {} /\ child = NoChild /\ timer = "idle" /\ launches = 0
    /\ ret = NoRet /\ evaluated = 0 /\ passed = 0 /\ total = 0
    /\ report = <<>>

EvalInit == EvalStart(MaxTasks)

(***************************************************************************)
(* main: one iteration of the loop over the results file, up to the call    *)
(* of run_file_and_capture (lines 361-398).                                 *)
(***************************************************************************)
MainStartTask ==
    /\ pc = "next" /\ cur <= Len(tasks)
    /\ LET t == tasks[cur]
           cases == normalize_tests(t.test)
       IN  IF Skipped(t)
           THEN /\ cur' = cur + 1
                /\ pc' = "next"
           ELSE IF is_class_based_task(cases) /\ BuildClassRaises(cases)
           THEN \* the TypeError/IndexError leaves main: nothing catches it
                /\ pc' = "crashed"
                /\ cur' = cur
           ELSE /\ pc' = "create"
                /\ cur' = cur
    /\ UNCHANGED <<harnessVars, clsVars, pureVars>>
    /\ UNCHANGED <<tasks, tmp_path, files, child, timer, launches, ret,
                   evaluated, passed, total, report>>

MainFinish ==
    /\ pc = "next" /\ cur > Len(tasks)
    /\ pc' = "done"
    /\ UNCHANGED <<harnessVars, clsVars, pureVars>>
    /\ UNCHANGED <<tasks, cur, tmp_path, files, child, timer, launches, ret,
                   evaluated, passed, total, report>>

(***************************************************************************)
(* run_file_and_capture (lines 315-343).  The transient file of the task    *)
(* at line cur is named cur: NamedTemporaryFile picks a fresh name.          *)
(***************************************************************************)
\* line 321: the file is created (delete=False), or the creation fails
RfcCreate ==
    /\ pc = "create"
    /\ \/ /\ files' = files \cup {cur}
          /\ pc' = "write"
          /\ ret' = ret
       \/ /\ files' = files
          /\ ret' = Ret(FALSE, TracebackText)      \* lines 339-340
          /\ pc' = "finally"
    /\ UNCHANGED <<harnessVars, clsVars, pureVars>>
    /\ UNCHANGED <<tasks, cur, tmp_path, child, timer, launches,
                   evaluated, passed, total, report>>

\* lines 322-324: write, flush, and only then tmp_path = tmp.name
RfcWrite ==
    /\ pc = "write"
    /\ \/ /\ Encodable(tasks[cur].llm_code)
          /\ tmp_path' = cur
          /\ pc' = "launch"
          /\ ret' = ret
       \/ \* UnicodeEncodeError, or an OSError such as a full disk
          /\ tmp_path' = tmp_path
          /\ ret' = Ret(FALSE, TracebackText)      \* lines 339-340
          /\ pc' = "finally"
    /\ UNCHANGED <<harnessVars, clsVars, pureVars>>
    /\ UNCHANGED <<tasks, cur, files, child, timer, launches,
                   evaluated, passed, total, report>>

\* line 326: subprocess.run starts python3 on the file, or fails to
RfcLaunch ==
    /\ pc = "launch"
    /\ \/ /\ child' = [state |-> "running", phase |-> "candidate", rc |-> 0,
                       stdout |-> <<>>, stderr |-> <<>>]
          /\ timer' = "armed"
          /\ launches' = launches + 1
          /\ pc' = "wait"
          /\ ret' = ret
       \/ /\ ret' = Ret(FALSE, TracebackText)      \* lines 339-340
          /\ pc' = "finally"
          /\ UNCHANGED <<child, timer, launches>>
    /\ UNCHANGED <<harnessVars, clsVars, pureVars>>
    /\ UNCHANGED <<tasks, cur, tmp_path, files, evaluated, passed, total, report>>

SuccessMarkerOnly(rc, out) == ContainsMarker(out)

\* line 333
Success(rc, out) == rc = 0 /\ ContainsMarker(out)

\* lines 326-336: the child exited before the deadline
RfcCollect ==
    /\ pc = "wait" /\ child.state = "exited" /\ timer = "armed"
    /\ LET out == child.stdout \o child.stderr IN
       ret' = IF Success(child.rc, out)
              THEN Ret(TRUE, out) ELSE Ret(FALSE, out)
    /\ timer' = "idle"
    /\ pc' = "finally"
    /\ UNCHANGED <<harnessVars, clsVars, pureVars>>
    /\ UNCHANGED <<tasks, cur, tmp_path, files, child, launches,
                   evaluated, passed, total, report>>

\* the deadline passes with the child still running
TimerExpire ==
    /\ pc = "wait" /\ timer = "armed" /\ child.state = "running"
    /\ timer' = "expired"
    /\ UNCHANGED <<harnessVars, clsVars, pureVars>>
    /\ UNCHANGED <<tasks, cur, pc, tmp_path, files, child, launches, ret,
                   evaluated, passed, total, report>>

RfcTimeoutNoKill ==
    /\ pc = "wait" /\ timer = "expired"
    /\ ret' = Ret(FALSE, TimeoutExpiredText)
    /\ pc' = "finally"
    /\ UNCHANGED <<harnessVars, clsVars, pureVars>>
    /\ UNCHANGED <<tasks, cur, tmp_path, files, child, timer, launches,
                   evaluated, passed, total, report>>

\* subprocess.run on TimeoutExpired kills the child and waits for it, then
\* the exception reaches lines 337-338
RfcTimeout ==
    /\ pc = "wait" /\ timer = "expired"
    /\ child' = IF child.state = "running"
                THEN [child EXCEPT !.state = "killed", !.rc = -9]
                ELSE child
    /\ ret' = Ret(FALSE, TimeoutExpiredText)
    /\ pc' = "finally"
    /\ UNCHANGED <<harnessVars, clsVars, pureVars>>
    /\ UNCHANGED <<tasks, cur, tmp_path, files, timer, launches,
                   evaluated, passed, total, report>>

\* lines 341-343, and the return to main
RfcFinally ==
    /\ pc = "finally"
    /\ files' = IF tmp_path # NoPath /\ tmp_path \in files
                THEN files \ {tmp_path} ELSE files
    /\ pc' = "returned"
    /\ UNCHANGED <<harnessVars, clsVars, pureVars>>
    /\ UNCHANGED <<tasks, cur, tmp_path, child, timer, launches, ret,
                   evaluated, passed, total, report>>

\* lines 399-412: the counters, then the record; then the next line.  The
\* write of the record raises when its text cannot be encoded, after the
\* counters were updated, and nothing in main catches that.
MainRecord ==
    /\ pc = "returned"
    /\ evaluated' = evaluated + 1
    /\ total' = total + 1
    /\ passed' = IF ret.success THEN passed + 1 ELSE passed
    /\ IF RecordEncodable(tasks[cur])
       THEN /\ report' = Append(report,
                  [dataset_index |-> cur,
                   task_id |-> tasks[cur].task_id,
                   entry_point |-> tasks[cur].entry_point,
                   passed |-> ret.success,
                   runner_output |-> ret.output,
                   is_class_based |->
                       is_class_based_task(normalize_tests(tasks[cur].test))])
            /\ cur' = cur + 1
            /\ pc' = "next"
       ELSE /\ pc' = "crashed"
            /\ UNCHANGED <<report, cur>>
    \* the call of run_file_and_capture is over: its locals are gone
    /\ tmp_path' = NoPath /\ child' = NoChild /\ timer' = "idle"
    /\ launches' = 0 /\ ret' = NoRet
    /\ UNCHANGED <<harnessVars, clsVars, pureVars>>
    /\ UNCHANGED <<tasks, files>>

(***************************************************************************)
(* The child process: the candidate's code, then the generated driver.      *)
(***************************************************************************)
\* a candidate free to do what it pleases is running
ChildRuns == pc = "wait" /\ child.state = "running" /\ ~Scripted(tasks[cur])

\* the child is an ordinary process in the evaluator's own file system
\* (lines 326-331): the stateful candidate finds what an earlier run left
ChildStateful ==
    /\ pc = "wait" /\ child.state = "running" /\ Scripted(tasks[cur])
    /\ IF CandidateFile \in files
       THEN LET n == Len(normalize_tests(tasks[cur].test)) IN
            /\ child' = [child EXCEPT !.state = "exited", !.rc = 0,
                                      !.phase = "harness",
                                      !.stdout = Append(@, ResultLine(n, n))]
            /\ files' = files
       ELSE /\ files' = files \cup {CandidateFile}
            /\ child' = [child EXCEPT !.state = "exited", !.rc = 1]
    /\ UNCHANGED <<harnessVars, clsVars, pureVars>>
    /\ UNCHANGED <<tasks, cur, pc, tmp_path, timer, launches, ret,
                   evaluated, passed, total, report>>

\* candidate code (at module level, or called by the driver) prints text
\* that holds "__RESULT__", to stdout or to stderr; once is enough here
ChildPrintMarker ==
    /\ ChildRuns
    /\ child.stdout = <<>> /\ child.stderr = <<>>
    /\ \/ child' = [child EXCEPT !.stdout = Append(@, SpoofLine)]
       \/ child' = [child EXCEPT !.stderr = Append(@, SpoofLine)]
    /\ UNCHANGED <<harnessVars, clsVars, pureVars>>
    /\ UNCHANGED <<tasks, cur, pc, tmp_path, files, timer, launches, ret,
                   evaluated, passed, total, report>>

\* candidate code ends the process itself: sys.exit(rc), or an uncaught
\* error at module level (rc = 1)
ChildExit ==
    /\ ChildRuns
    /\ \E rc \in {0, 1} :
          child' = [child EXCEPT !.state = "exited", !.rc = rc]
    /\ UNCHANGED <<harnessVars, clsVars, pureVars>>
    /\ UNCHANGED <<tasks, cur, pc, tmp_path, files, timer, launches, ret,
                   evaluated, passed, total, report>>

\* lines 201-202 / 293-294: the candidate's module level is done
ChildReachHarness ==
    /\ ChildRuns /\ child.phase = "candidate"
    /\ child' = [child EXCEPT !.phase = "harness"]
    /\ UNCHANGED <<harnessVars, clsVars, pureVars>>
    /\ UNCHANGED <<tasks, cur, pc, tmp_path, files, timer, launches, ret,
                   evaluated, passed, total, report>>

\* lines 199 / 291: every case passed, the driver prints the result line
ChildHarnessPass ==
    /\ ChildRuns /\ child.phase = "harness"
    /\ LET n == Len(normalize_tests(tasks[cur].test)) IN
       child' = [child EXCEPT !.state = "exited", !.rc = 0,
                              !.stdout = Append(@, ResultLine(n, n))]
    /\ UNCHANGED <<harnessVars, clsVars, pureVars>>
    /\ UNCHANGED <<tasks, cur, pc, tmp_path, files, timer, launches, ret,
                   evaluated, passed, total, report>>

\* lines 176, 194, 197 / 256, 268, 287: an AssertionError ends the driver
ChildHarnessAbort ==
    /\ ChildRuns /\ child.phase = "harness"
    /\ child' = [child EXCEPT !.state = "exited", !.rc = 1,
                              !.stderr = Append(@, TextLine("Traceback", FALSE))]
    /\ UNCHANGED <<harnessVars, clsVars, pureVars>>
    /\ UNCHANGED <<tasks, cur, pc, tmp_path, files, timer, launches, ret,
                   evaluated, passed, total, report>>

EvalStep ==
    \/ MainStartTask \/ MainFinish \/ RfcCreate \/ RfcWrite \/ RfcLaunch
    \/ RfcCollect \/ RfcTimeout \/ RfcFinally \/ MainRecord
ChildStep ==
    \/ ChildPrintMarker \/ ChildExit \/ ChildReachHarness
    \/ ChildHarnessPass \/ ChildHarnessAbort \/ ChildStateful


(***************************************************************************)
(* The generated drivers: __run_tests__ of the function harness (lines      *)
(* 168-199) and of the class harness (lines 252-291), run against a         *)
(* candidate whose calls return, raise or end the process as they please.    *)
(***************************************************************************)
NoObj == 0
NoExit == -1
EntryName == "f"

\* a binding of the module namespace: the global name, the type of the
\* object (kind "function" is types.FunctionType), the object's __name__,
\* and where the object comes from: a def of the candidate or an import
Bind(name, kind) == [name |-> name, kind |-> kind, fname |-> name, origin |-> "def"]
\* from <library> import <name>, the library's function being written in Python
Imported(name) == [name |-> name, kind |-> "function", fname |-> name, origin |-> "import"]
\* name = make(), make returning an inner function defined as fname
Named(name, fname) == [name |-> name, kind |-> "function", fname |-> fname, origin |-> "def"]
NoFn == [name |-> "", kind |-> "none", fname |-> "", origin |-> "none"]
HarnessNames == {"results_equivalent", "find_user_function", "__run_tests__"}
HarnessBindings ==
    <<Bind("results_equivalent", "function"), Bind("find_user_function", "function"),
      Bind("__run_tests__", "function")>>
\* name.startswith('__'), on the names of the model
StartsWithDunder(name) == name \in {"__run_tests__", "__h"}

\* the candidate's module namespace, in definition order
FuncNamespaces ==
    { <<>>,
      <<Bind("f", "function")>>,
      <<Bind("g", "function")>>,
      <<Bind("g", "function"), Bind("h", "function")>>,
      <<Bind("__h", "function")>>,
      <<Bind("f", "other")>>,
      <<Bind("make", "function"), Named("g", "f")>>,
      <<Imported("deepcopy"), Bind("g", "function")>> }
ClassNamespaces == { <<>>, <<Bind("f", "class")>> }

Defined(globals, name) == \E i \in 1..Len(globals) : globals[i].name = name
Lookup(globals, name) ==
    globals[CHOOSE i \in 1..Len(globals) : globals[i].name = name]

\* lines 151-153
IsUserFunction(g) ==
    /\ g.kind = "function"
    /\ ~StartsWithDunder(g.name)
    /\ g.name \notin HarnessNames

\* lines 138-166
find_user_function(globals, entry_point) ==
    LET user_functions == SelectSeq(globals, IsUserFunction) IN
    IF Len(user_functions) = 1 THEN user_functions[1]
    ELSE IF Len(user_functions) > 1 THEN
        IF \E i \in 1..Len(user_functions) : user_functions[i].fname = entry_point
        THEN user_functions[CHOOSE i \in 1..Len(user_functions) :
                 /\ user_functions[i].fname = entry_point
                 /\ \A j \in 1..(i - 1) : user_functions[j].fname # entry_point]
        ELSE user_functions[1]
    ELSE NoFn

\* embedded cases
FuncCase(args, expected) == [args |-> args, expected |-> expected]
ClassCase(n, a, m, e0) ==
    [methods |-> [i \in 1..n |-> IF i = 1 THEN "C" ELSE "m"],
     args_list |-> [i \in 1..a |-> IF i = 2 THEN ListV(<<V1>>) ELSE ListV(<<>>)],
     expected_list |-> [i \in 1..m |-> IF i = 1 THEN e0 ELSE V1]]

FuncCasePool ==
    { FuncCase(a, e) : a \in {ListV(<<>>), ListV(<<V1>>), V1}, e \in {V1, NoneV} }
        \cup { FuncCase(a, V1) :
                  a \in {ListV(<<V1, NoneV>>), StrV(<<"x">>), NoneV,
                         DictV([key \in {"a"} |-> V1])} }
ClassCasePool ==
    { ClassCase(n, n, n, e0) : n \in 0..MaxSteps, e0 \in {NoneV, V1} }
        \cup { ClassCase(1, 2, 1, NoneV), ClassCase(2, 2, 1, NoneV) }

\* what a candidate call can do: return a value, raise an Exception, or end
\* the process by raising SystemExit (which except Exception lets through)
Results == {NoneV, FloatV(1, 1), IntV(2)}
Return(v) == [outcome |-> "return", result |-> v, code |-> 0]
Raise == [outcome |-> "raise", result |-> NoneV, code |-> 0]
SysExit(code) == [outcome |-> "exit", result |-> NoneV, code |-> code]
NoAttr == [outcome |-> "noattr", result |-> NoneV, code |-> 0]
CallOutcomes(f) ==
    IF f.kind = "other" THEN {Raise}     \* TypeError: object is not callable
    ELSE {Return(v) : v \in Results} \cup {Raise} \cup {SysExit(c) : c \in {0, 1}}

Call(c, s, target, argv, inst, seen, o, expected) ==
    [case |-> c, step |-> s, target |-> target, args |-> argv, inst |-> inst,
     seen |-> seen, outcome |-> o.outcome, result |-> o.result,
     expected |-> expected]

NoDiag == [kind |-> "none", case |-> -1, step |-> -1, method |-> "", msg |-> ""]
Uncaught == [kind |-> "uncaught", case |-> -1, step |-> -1, method |-> "", msg |-> ""]
AssertionError(c, s, method, msg) ==
    [kind |-> "assert", case |-> c, step |-> s, method |-> method, msg |-> msg]

HarnessIdle ==
    /\ hshape = "none" /\ hglobals = <<>> /\ CASES = <<>> /\ hpc = "exited"
    /\ fn = NoFn /\ case_idx = 0 /\ step = 0 /\ hpassed = 0 /\ htotal = 0
    /\ obj = NoObj /\ instances = <<>> /\ calls = <<>> /\ hstdout = <<>>
    /\ hexit = NoExit /\ diag = NoDiag

HarnessInit ==
    /\ hshape \in {"func", "class"}
    /\ hglobals \in IF hshape = "func" THEN FuncNamespaces ELSE ClassNamespaces
    /\ CASES \in UNION {[1..n -> IF hshape = "func" THEN FuncCasePool
                                  ELSE ClassCasePool] : n \in 1..MaxCases}
    \* main builds the class harness only when is_class_based_task holds:
    \* the first case names at least the constructor
    /\ hshape = "class" => CASES[1].methods # <<>>
    /\ hpc = "resolve"
    /\ fn = NoFn /\ case_idx = 0 /\ step = 0 /\ hpassed = 0 /\ htotal = 0
    /\ obj = NoObj /\ instances = <<>> /\ calls = <<>> /\ hstdout = <<>>
    /\ hexit = NoExit /\ diag = NoDiag

\* lines 193 / 286: if not results_equivalent(result, expected)
CaseFails(result, expected) ==
    IF hshape = "func" THEN ~results_equivalent_function_harness(result, expected)
    ELSE ~results_equivalent_class_harness(result, expected)

\* lines 194, 197: both messages begin "Case {i} failed"
FuncAbort(i, msg) == AssertionError(i, -1, "", msg)

\* lines 170-176 (function driver) and 253-256 (class driver), and the
\* counters of lines 182-183 / 262-263
HResolve ==
    /\ hpc = "resolve"
    /\ IF Defined(hglobals, EntryName)
       THEN /\ fn' = Lookup(hglobals, EntryName)
            /\ hpc' = "loop"
            /\ UNCHANGED <<diag, hexit>>
       ELSE IF hshape = "func"
               /\ find_user_function(hglobals \o HarnessBindings, EntryName) # NoFn
       THEN /\ fn' = find_user_function(hglobals \o HarnessBindings, EntryName)
            /\ hpc' = "loop"
            /\ UNCHANGED <<diag, hexit>>
       ELSE /\ diag' = AssertionError(-1, -1, "", IF hshape = "func"
                                                   THEN "nofunction" ELSE "noentry")
            /\ hexit' = 1
            /\ hpc' = "exited"
            /\ fn' = fn
    /\ hpassed' = 0 /\ htotal' = 0 /\ case_idx' = 0
    /\ UNCHANGED <<hshape, hglobals, CASES, step, obj, instances, calls, hstdout>>
    /\ UNCHANGED <<evalVars, clsVars, pureVars>>

CallArgsNeverSpread(args) == <<args>>

\* lines 188-191: fn(*args) for a list, fn(args) for anything else
CallArgs(args) == IF IsList(args) THEN args.items ELSE <<args>>

\* lines 184-197: one iteration of the function driver's loop
HFuncCase ==
    /\ hpc = "loop" /\ hshape = "func" /\ case_idx < Len(CASES)
    /\ LET c == CASES[case_idx + 1]
           argv == CallArgs(c.args)
       IN  \E o \in CallOutcomes(fn) :
           /\ calls' = Append(calls, Call(case_idx, 0, fn.fname, argv, NoObj, {},
                                          o, c.expected))
           /\ htotal' = htotal + 1
           /\ IF o.outcome = "exit"
              THEN \* SystemExit is no Exception: line 196 does not catch it
                   /\ hexit' = o.code /\ hpc' = "exited"
                   /\ UNCHANGED <<diag, hpassed, case_idx>>
              ELSE IF o.outcome = "raise"
              THEN /\ diag' = FuncAbort(case_idx, "exception")
                   /\ hexit' = 1 /\ hpc' = "exited"
                   /\ UNCHANGED <<hpassed, case_idx>>
              ELSE IF CaseFails(o.result, c.expected)
              THEN /\ diag' = FuncAbort(case_idx, "mismatch")
                   /\ hexit' = 1 /\ hpc' = "exited"
                   /\ UNCHANGED <<hpassed, case_idx>>
              ELSE /\ hpassed' = hpassed + 1
                   /\ case_idx' = case_idx + 1
                   /\ UNCHANGED <<diag, hexit, hpc>>
    /\ UNCHANGED <<hshape, hglobals, CASES, fn, step, obj, instances, hstdout>>
    /\ UNCHANGED <<evalVars, clsVars, pureVars>>

LengthMismatchArgsOnly(c) == Len(c.methods) # Len(c.args_list)

\* line 267
LengthMismatch(c) ==
    Len(c.methods) # Len(c.args_list) \/ Len(c.methods) # Len(c.expected_list)

\* line 271: zip(methods, args_list, expected_list) stops with the shortest
ZipLen(c) ==
    CHOOSE n \in {Len(c.methods), Len(c.args_list), Len(c.expected_list)} :
        /\ n <= Len(c.methods) /\ n <= Len(c.args_list)
        /\ n <= Len(c.expected_list)

\* lines 264-270: a case of the class driver begins
HClassCaseStart ==
    /\ hpc = "loop" /\ hshape = "class" /\ case_idx < Len(CASES)
    /\ LET c == CASES[case_idx + 1] IN
       /\ htotal' = htotal + 1
       /\ IF LengthMismatch(c)
          THEN /\ diag' = AssertionError(case_idx, -1, "", "length")
               /\ hexit' = 1 /\ hpc' = "exited"
               /\ UNCHANGED <<obj, step>>
          ELSE /\ obj' = NoObj
               /\ step' = 0
               /\ hpc' = "steps"
               /\ UNCHANGED <<diag, hexit>>
    /\ UNCHANGED <<hshape, hglobals, CASES, fn, case_idx, hpassed, instances,
                   calls, hstdout>>
    /\ UNCHANGED <<evalVars, clsVars, pureVars>>

ConstructShared(insts, c) ==
    IF insts = <<>> THEN [insts |-> <<{c}>>, obj |-> 1]
    ELSE [insts |-> [insts EXCEPT ![1] = @ \cup {c}], obj |-> 1]

\* lines 273-276: obj = cls(...), a new instance whose state this case wrote
Construct(insts, c) == [insts |-> Append(insts, {c}), obj |-> Len(insts) + 1]

\* line 277
CtorResult == NoneV

StepCheckedSkipCtor(i) == i # 0

\* line 286 stands after the if/else of lines 272-284: it runs for every step
StepChecked(i) == TRUE

\* lines 271-287: one step of a case of the class driver
HClassStep ==
    /\ hpc = "steps" /\ hshape = "class"
    /\ LET c == CASES[case_idx + 1]
           method_name == c.methods[step + 1]
           method_args == c.args_list[step + 1]
           expected == c.expected_list[step + 1]
           argv == IF Truthy(method_args) THEN method_args.items ELSE <<>>
       IN
       /\ step < ZipLen(c)
       /\ \E o \in (IF step = 0 THEN CallOutcomes(fn)
                    ELSE CallOutcomes(fn) \cup {NoAttr}) :
          LET made == IF step = 0 THEN Construct(instances, case_idx)
                      ELSE [insts |-> [instances EXCEPT ![obj] = @ \cup {case_idx}],
                            obj |-> obj]
              result == IF step = 0 THEN CtorResult ELSE o.result
              seen == IF step = 0 THEN {} ELSE instances[obj]
          IN
          IF o.outcome = "return"
          THEN /\ instances' = made.insts
               /\ obj' = made.obj
               /\ calls' = Append(calls,
                      Call(case_idx, step, method_name, argv, made.obj, seen,
                           Return(result), expected))
               /\ IF StepChecked(step) /\ CaseFails(result, expected)
                  THEN /\ diag' = AssertionError(case_idx, step, method_name, "mismatch")
                       /\ hexit' = 1 /\ hpc' = "exited"
                       /\ step' = step
                  ELSE /\ step' = step + 1
                       /\ UNCHANGED <<diag, hexit, hpc>>
          ELSE /\ calls' = Append(calls,
                      Call(case_idx, step, method_name, argv, obj, seen, o, expected))
               /\ instances' = IF step = 0 \/ o.outcome = "noattr"
                               THEN instances ELSE made.insts
               /\ hpc' = "exited"
               /\ hexit' = IF o.outcome = "exit" THEN o.code ELSE 1
               /\ diag' = IF o.outcome = "exit" THEN diag ELSE Uncaught
               /\ UNCHANGED <<obj, step>>
    /\ UNCHANGED <<hshape, hglobals, CASES, fn, case_idx, hpassed, htotal, hstdout>>
    /\ UNCHANGED <<evalVars, clsVars, pureVars>>

\* line 289: every step of the case passed
HClassCaseEnd ==
    /\ hpc = "steps" /\ hshape = "class"
    /\ step = ZipLen(CASES[case_idx + 1])
    /\ hpassed' = hpassed + 1
    /\ case_idx' = case_idx + 1
    /\ hpc' = "loop"
    /\ UNCHANGED <<hshape, hglobals, CASES, fn, step, htotal, obj, instances,
                   calls, hstdout, hexit, diag>>
    /\ UNCHANGED <<evalVars, clsVars, pureVars>>

\* lines 199 / 291: the loop is exhausted; the process ends with status 0
HPrint ==
    /\ hpc = "loop" /\ case_idx = Len(CASES)
    /\ hstdout' = Append(hstdout, ResultLine(hpassed, htotal))
    /\ hexit' = 0
    /\ hpc' = "exited"
    /\ UNCHANGED <<hshape, hglobals, CASES, fn, case_idx, step, hpassed, htotal,
                   obj, instances, calls, diag>>
    /\ UNCHANGED <<evalVars, clsVars, pureVars>>

(***************************************************************************)
(* is_class_based_task applied to a drawn case list.                        *)
(***************************************************************************)
ClsElems ==
    { NoneV, V1, StrV(<<"C">>), ListV(<<>>), ListV(<<StrV(<<"C">>)>>),
      ListV(<<V1>>), ListV(<<StrV(<<"C">>), V1>>), DictV(<<>>) }
ClsInputs ==
    {NoneV, V1, StrV(<<"C", "m">>)}
        \cup { ListV(s) : s \in UNION {[1..n -> ClsElems] : n \in 0..MaxOuter} }
ClsLaterCases == { <<>>, <<(<<V1, V1>>)>>, <<(<<ClassInput, ClassOutput>>)>> }

NoResult == [done |-> FALSE, value |-> FALSE]
ClsIdle == test_cases = <<>> /\ cls_result = NoResult

ClsInit ==
    /\ test_cases \in {<<>>} \cup { <<(<<inp, NoneV>>)>> \o later :
                                      inp \in ClsInputs, later \in ClsLaterCases }
    /\ cls_result = NoResult

Classify ==
    /\ ~cls_result.done
    /\ cls_result' = [done |-> TRUE, value |-> is_class_based_task(test_cases)]
    /\ UNCHANGED test_cases
    /\ UNCHANGED <<evalVars, harnessVars, pureVars>>

(***************************************************************************)
(* extract_code (lines 14-29).  A text is a sequence of tokens: the fence   *)
(* of three backquotes, the word python in either case, whitespace, and     *)
(* other characters.                                                        *)
(***************************************************************************)
\* the token that stands for three backquotes
Fence == "fence"
PythonWords == {"python", "Python"}     \* the pattern is matched with IGNORECASE

SetMin(S) == CHOOSE x \in S : \A y \in S : x <= y

\* index of the first fence at or after i, 0 if there is none
RECURSIVE NextFence(_, _)
NextFence(s, i) ==
    IF i > Len(s) THEN 0
    ELSE IF s[i] = Fence THEN i ELSE NextFence(s, i + 1)

\* \s* : the first index at or after i that holds no whitespace
RECURSIVE SkipSpace(_, _)
SkipSpace(s, i) ==
    IF i <= Len(s) /\ IsSpace(s[i]) THEN SkipSpace(s, i + 1) ELSE i

\* the group (.*?) of a match whose opening ends just before index i
Group(s, i) ==
    LET from == SkipSpace(s, i) IN SubSeq(s, from, NextFence(s, from) - 1)

\* where the pattern of line 22 (fence python \s* (.*?) fence) can match
TaggedStarts(s) ==
    { i \in 1..(Len(s) - 1) :
        s[i] = Fence /\ s[i + 1] \in PythonWords /\ NextFence(s, i + 2) # 0 }
\* where the pattern of line 26 (fence \s* (.*?) fence) can match
AnyStarts(s) ==
    { i \in 1..Len(s) : s[i] = Fence /\ NextFence(s, i + 1) # 0 }

extract_code(resp) ==
    IF ~IsStr(resp) THEN <<>>
    ELSE LET s == resp.chars IN
         IF TaggedStarts(s) # {} THEN Strip(Group(s, SetMin(TaggedStarts(s)) + 2))
         ELSE IF AnyStarts(s) # {} THEN Strip(Group(s, SetMin(AnyStarts(s)) + 1))
         ELSE Strip(s)

\* A response as it is written: prose, fenced blocks (fence, info string,
\* newline, body, newline, fence) and, at its end, a block never closed.
Prose(body) == [kind |-> "prose", tag |-> <<>>, body |-> body]
Block(tag, body) == [kind |-> "block", tag |-> tag, body |-> body]
OpenBlock(tag, body) == [kind |-> "open", tag |-> tag, body |-> body]
RenderSeg(g) ==
    CASE g.kind = "prose" -> g.body
      [] g.kind = "block" -> <<Fence>> \o g.tag \o <<"\n">> \o g.body \o <<"\n", Fence>>
      [] g.kind = "open" -> <<Fence>> \o g.tag \o <<"\n">> \o g.body
RECURSIVE Render(_)
Render(segs) ==
    IF segs = <<>> THEN <<>>
    ELSE IF Len(segs) = 1 THEN RenderSeg(Head(segs))
    ELSE RenderSeg(Head(segs)) \o <<"\n">> \o Render(Tail(segs))

InfoStrings == { <<>>, <<"python">>, <<"Python">>, <<"python", "3">>, <<"js">> }
Bodies == { <<"a">>, <<"b">> }
SegPool ==
    { Prose(<<"x", " ">>) }
        \cup { Block(t, b) : t \in InfoStrings, b \in Bodies }
        \cup { OpenBlock(t, <<"a">>) : t \in {<<>>, <<"python">>} }
Responses ==
    { s \in UNION {[1..n -> SegPool] : n \in 0..MaxSegs} :
        \A i \in 1..(Len(s) - 1) : s[i].kind # "open" }

NoText == [done |-> FALSE, value |-> <<>>]
ExtractInit ==
    /\ \/ segments \in Responses /\ response = StrV(Render(segments))
       \/ segments = <<>> /\ response \in {NoneV, V1}
    /\ extracted = NoText
ExtractCode ==
    /\ ~extracted.done
    /\ extracted' = [done |-> TRUE, value |-> extract_code(response)]
    /\ UNCHANGED <<segments, response, arg_result, arg_expected, eq_ret>>
    /\ UNCHANGED <<evalVars, harnessVars, clsVars>>

(***************************************************************************)
(* results_equivalent applied to drawn pairs of values, in both orders of    *)
(* the pair and in its three copies.                                        *)
(***************************************************************************)
NumAtoms ==
    { IntV(1), IntV(2), FloatV(1, 0), FloatV(1, 1), FloatV(1, 2), BoolV(TRUE),
      BigIntV(1), BigFloatV(0) }
StrAtoms ==
    { StrV(<<"x">>), StrV(<<" ", "x", " ">>), StrV(<<"x", " ", "x">>),
      StrV(<<"x", "x">>) }
SeqElems ==
    { IntV(1), FloatV(1, 1), StrV(<<"x">>), StrV(<<" ", "x", " ">>),
      ListV(<<IntV(1)>>), TupleV(<<IntV(1)>>) }
SeqValues ==
    UNION { {ListV(s), TupleV(s)} :
              s \in UNION {[1..n -> SeqElems] : n \in 0..MaxSeqLen} }
DictElems ==
    { IntV(1), FloatV(1, 1), StrV(<<"x">>), StrV(<<" ", "x", " ">>),
      DictV([a |-> IntV(1)]), DictV([a |-> FloatV(1, 1)]) }
DictValues ==
    { DictV(f) : f \in UNION {[K -> DictElems] : K \in SUBSET {"a", "b"}} }
SetValues ==
    { SetV(S) : S \in {{}, {IntV(1)}, {FloatV(1, 0)}, {IntV(1), IntV(2)},
                       {StrV(<<"x">>)}, {StrV(<<" ", "x", " ">>)}} }
Values ==
    {NoneV} \cup NumAtoms \cup StrAtoms \cup SeqValues \cup DictValues \cup SetValues

NoVerdict == [done |-> FALSE, value |-> FALSE, swapped |-> FALSE,
              in_function_harness |-> FALSE, in_class_harness |-> FALSE]
EquivInit ==
    /\ arg_result \in Values /\ arg_expected \in Values
    /\ eq_ret = NoVerdict
Compare ==
    /\ ~eq_ret.done
    /\ eq_ret' =
          [done |-> TRUE,
           value |-> results_equivalent(arg_result, arg_expected),
           swapped |-> results_equivalent(arg_expected, arg_result),
           in_function_harness |->
               results_equivalent_function_harness(arg_result, arg_expected),
           in_class_harness |->
               results_equivalent_class_harness(arg_result, arg_expected)]
    /\ UNCHANGED <<segments, response, extracted, arg_result, arg_expected>>
    /\ UNCHANGED <<evalVars, harnessVars, clsVars>>

PureIdle ==
    /\ segments = <<>> /\ response = NoneV /\ extracted = NoText
    /\ arg_result = NoneV /\ arg_expected = NoneV /\ eq_ret = NoVerdict

(***************************************************************************)
(* The specifications.                                                      *)
(***************************************************************************)
Init == EvalInit /\ HarnessIdle /\ ClsIdle /\ PureIdle
Next == EvalStep \/ ChildStep \/ TimerExpire
Spec == Init /\ [][Next]_vars
\* main is a sequential program that always takes its next step; the child
\* and the clock are free to act or not
FairInit == EvalStart(MaxLiveTasks) /\ HarnessIdle /\ ClsIdle /\ PureIdle
FairSpec == FairInit /\ [][Next]_vars /\ WF_vars(EvalStep)

HarnessNext ==
    \/ HResolve \/ HFuncCase \/ HClassCaseStart \/ HClassStep \/ HClassCaseEnd
    \/ HPrint
HarnessSpecInit == EvalIdle /\ HarnessInit /\ ClsIdle /\ PureIdle
HarnessSpec == HarnessSpecInit /\ [][HarnessNext]_vars

ClassifierInit == EvalIdle /\ HarnessIdle /\ ClsInit /\ PureIdle
ClassifierNext == Classify
ClassifierSpec == ClassifierInit /\ [][ClassifierNext]_vars

ExtractSpecInit ==
    /\ EvalIdle /\ HarnessIdle /\ ClsIdle /\ ExtractInit
    /\ arg_result = NoneV /\ arg_expected = NoneV /\ eq_ret = NoVerdict
ExtractNext == ExtractCode
ExtractSpec == ExtractSpecInit /\ [][ExtractNext]_vars

EquivalenceSpecInit ==
    /\ EvalIdle /\ HarnessIdle /\ ClsIdle /\ EquivInit
    /\ segments = <<>> /\ response = NoneV /\ extracted = NoText
EquivalenceNext == Compare
EquivalenceSpec == EquivalenceSpecInit /\ [][EquivalenceNext]_vars


(***************************************************************************)
(* Properties of run_file_and_capture and main (Spec, FairSpec).            *)
(***************************************************************************)

\* C1: run_file_and_capture returns success = true if and only if the child
\* exited with status 0 and the captured stdout+stderr holds the __RESULT__
\* marker; a non-zero exit, a zero exit without the marker, a failure to
\* launch and a timeout (even with the marker already printed) return false.
C1_SuccessIffZeroExitAndMarker ==
    pc = "returned" =>
        (ret.success <=> /\ timer # "expired"
                         /\ child.state = "exited"
                         /\ child.rc = 0
                         /\ \E i \in 1..Len(child.stdout \o child.stderr) :
                               (child.stdout \o child.stderr)[i].marker)
C1_Witness == pc = "returned" /\ ret.success

\* C2: after run_file_and_capture returns by any path (normal return,
\* timeout, failure to launch, an error while writing the program text into
\* the created file) the transient file it created no longer exists.
C2_TransientFileRemoved == pc = "returned" => cur \notin files

\* C3: if the child has not exited when the timeout elapses,
\* run_file_and_capture eventually returns (False, "TimeoutExpired") with
\* the child terminated, and no second child is launched for the task.
C3_TimeoutReturnsNoRetry ==
    /\ [](launches <= 1)
    /\ (timer = "expired")
          ~> (/\ timer = "expired" /\ pc = "returned"
              /\ ret = Ret(FALSE, TimeoutExpiredText)
              /\ child.state \in {"killed", "exited"}
              /\ launches = 1)
C3_Witness ==
    /\ pc = "returned" /\ timer = "expired" /\ child.state = "killed"
    /\ ret = Ret(FALSE, TimeoutExpiredText)

\* C4: whenever a task is reported passed, the child's standard output holds
\* a line of the exact form __RESULT__:<passed>/<total> with passed = total;
\* a run whose output lacks that line is reported failed whatever its exit
\* status, also when the candidate itself prints the text __RESULT__ and
\* exits with status 0 before the driver runs.
C4_PassedOnlyWithResultLine ==
    (pc = "returned" /\ ret.success) =>
        \E i \in 1..Len(child.stdout) :
            /\ child.stdout[i].kind = "result"
            /\ child.stdout[i].p = child.stdout[i].t

\* C10: every task that passes the skip checks ends with exactly one record
\* and the batch goes on to the next task; no task's data or candidate code
\* makes the evaluator itself raise and abort the batch.
C10_EveryTaskOneRecord ==
    /\ pc # "crashed"
    /\ pc = "done" =>
          \A t \in 1..Len(tasks) :
              ~Skipped(tasks[t]) =>
                  Cardinality({i \in 1..Len(report) :
                                  report[i].dataset_index = t}) = 1

\* an input defect, in the words of the report: the entry point is missing
\* or blank, no test item is usable, or the extracted code is empty
UsableItem(v) == v.k = "dict" /\ "input" \in DOMAIN v.m /\ "output" \in DOMAIN v.m
InputDefect(t) ==
    \/ t.entry_point.k # "str"
    \/ \A i \in 1..Len(t.entry_point.chars) : t.entry_point.chars[i] = " "
    \/ t.test.k # "list"
    \/ \A i \in 1..Len(t.test.items) : ~UsableItem(t.test.items[i])
    \/ \A i \in 1..Len(t.llm_code) : t.llm_code[i] = " "

\* C11: a task with a missing or blank entry point, with no usable case or
\* with empty extracted code is skipped before any harness is built or any
\* process launched: evaluated, passed and total are unchanged and no record
\* is ever written for it.
C11_SkippedLeavesNoTrace ==
    /\ [](\A i \in 1..Len(report) :
              ~InputDefect(tasks[report[i].dataset_index]))
    /\ [][(pc = "next" /\ cur <= Len(tasks) /\ InputDefect(tasks[cur])) =>
              /\ cur' = cur + 1 /\ pc' = "next"
              /\ UNCHANGED <<evaluated, passed, total, report, files, child,
                             launches, tmp_path, ret>>]_vars
C11_Witness ==
    /\ pc = "done" /\ Len(report) >= 1
    /\ \E t \in 1..Len(tasks) : InputDefect(tasks[t])

PassedRecords == {i \in 1..Len(report) : report[i].passed}
CountersConsistent ==
    /\ evaluated = total /\ total = Len(report)
    /\ 0 <= passed /\ passed <= total
    /\ passed = Cardinality(PassedRecords)
CountersStep ==
    /\ evaluated' >= evaluated /\ passed' >= passed /\ total' >= total
    /\ <<evaluated, passed, total>>' # <<evaluated, passed, total>>
          => (pc = "returned" /\ ret.set)

\* C12: after any sequence of task evaluations evaluated = total = number
\* of records written, 0 <= passed <= total, passed is the number of records
\* with passed = true, and each counter only ever increases and changes only
\* after run_file_and_capture has returned for that task.
C12_TotalsMatchRecords == [](CountersConsistent) /\ [][CountersStep]_vars

\* What holds of C12 on the code: all of it for as long as main runs; when
\* the write of a record raises, main dies with the task already counted
\* and its record missing.
C12_HoldsWhileMainRuns ==
    [](pc # "crashed" => CountersConsistent) /\ [][CountersStep]_vars

\* C19: evaluating the same (candidate source, task) pair twice, anywhere
\* in a batch and after any other evaluations, yields the same verdict: no
\* state written by one evaluation influences the result of another.
C19_SameVerdictEachTime ==
    \A i, j \in 1..Len(report) :
        tasks[report[i].dataset_index] = tasks[report[j].dataset_index]
            => report[i].passed = report[j].passed

\* What holds of C19 on the code: the verdict written for a task is a
\* function of what its own child did (exit status, output, deadline); the
\* counters, the records and the transient files of earlier evaluations are
\* not read.  What the child does is not a function of the pair alone.
C19_VerdictFromOwnChildOnly ==
    [][report' # report =>
          /\ pc = "returned"
          /\ report' = Append(report, report'[Len(report')])
          /\ report'[Len(report')].passed =
                (/\ timer # "expired" /\ child.state = "exited" /\ child.rc = 0
                 /\ \E i \in 1..Len(child.stdout \o child.stderr) :
                       (child.stdout \o child.stderr)[i].marker)]_vars
C19_StatefulCandidateTwice ==
    /\ Len(report) = 2 /\ tasks[1] = tasks[2] /\ Scripted(tasks[1])
    /\ ~report[1].passed /\ report[2].passed

(***************************************************************************)
(* Properties of the generated drivers (HarnessSpec).                       *)
(***************************************************************************)
Exited == hpc = "exited"
LastCall == calls[Len(calls)]
OkCall(e) == e.outcome = "return" /\ results_equivalent(e.result, e.expected)

\* case c (0-based) ran to its end with every step returning an equivalent value
FuncCaseOk(c) ==
    \E k \in 1..Len(calls) :
        /\ calls[k].case = c
        /\ calls[k].expected = CASES[c + 1].expected
        /\ OkCall(calls[k])
ClassStepsOk(c, from) ==
    LET cs == CASES[c + 1] IN
    /\ Len(cs.methods) = Len(cs.args_list)
    /\ Len(cs.methods) = Len(cs.expected_list)
    /\ \A s \in from..(Len(cs.methods) - 1) :
          \E k \in 1..Len(calls) :
              /\ calls[k].case = c /\ calls[k].step = s
              /\ calls[k].expected = cs.expected_list[s + 1]
              /\ OkCall(calls[k])
Constructed(c) ==
    \E k \in 1..Len(calls) :
        calls[k].case = c /\ calls[k].step = 0 /\ calls[k].outcome = "return"
AllCasesOk ==
    \A c \in 0..(Len(CASES) - 1) :
        IF hshape = "func" THEN FuncCaseOk(c) ELSE ClassStepsOk(c, 0)
PrintedOnce == hstdout = <<ResultLine(Len(CASES), Len(CASES))>>

\* C5: either driver prints the result line exactly once, as
\* __RESULT__:<n>/<n> with n the number of embedded cases, if and only if
\* every case (every checked step) produced a value equivalent to its
\* expected value without raising; on any case failure it aborts with a
\* non-zero exit and never prints the result line.
C5_ResultLineIffAllCasesPass ==
    /\ ~Exited => hstdout = <<>>
    /\ Exited => IF AllCasesOk THEN PrintedOnce /\ hexit = 0
                 ELSE hstdout = <<>> /\ hexit # 0

\* What holds of C5 on the code: the result line is printed exactly once,
\* as n/n, iff every case passed, and a failure prints nothing; the exit
\* status of a failure is non-zero unless the failing call itself ended the
\* process by raising SystemExit, whose status the process then takes.
C5_HoldsUnlessCallExits ==
    /\ ~Exited => hstdout = <<>>
    /\ Exited => IF AllCasesOk THEN PrintedOnce /\ hexit = 0
                 ELSE /\ hstdout = <<>>
                      /\ hexit = 0 => (calls # <<>> /\ LastCall.outcome = "exit")
C5_AllPassed == Exited /\ PrintedOnce /\ Len(CASES) >= 2

\* C6: the function driver drives the cases in their order, and if case i
\* is the first whose call raises or returns a value that is not
\* equivalent, the entry point is never invoked for a case j > i and the
\* abort diagnostic identifies case index i.
C6_FirstFailureStopsAndIsNamed ==
    hshape = "func" =>
        \A k \in 1..Len(calls) :
            /\ calls[k].case = k - 1
            /\ ~OkCall(calls[k]) =>
                  /\ k = Len(calls) /\ Exited /\ hstdout = <<>>
                  /\ diag.kind = "assert" /\ diag.case = calls[k].case

\* What holds of C6 on the code: the order, and no call after the first
\* failure; the diagnostic names case i when the call returned a value that
\* is not equivalent or raised an Exception, which line 196 catches, and
\* there is none when the call raised SystemExit.
C6_HoldsUnlessCallExits ==
    hshape = "func" =>
        \A k \in 1..Len(calls) :
            /\ calls[k].case = k - 1
            /\ ~OkCall(calls[k]) =>
                  /\ k = Len(calls) /\ Exited /\ hstdout = <<>>
                  /\ calls[k].outcome # "exit" =>
                        (diag.kind = "assert" /\ diag.case = calls[k].case)
C6_FailureAtFirstCase ==
    /\ hshape = "func" /\ Exited /\ Len(CASES) >= 2
    /\ Len(calls) = 1 /\ diag.kind = "assert" /\ diag.case = 0

ClassStepFails(e) ==
    \/ e.step >= 1 /\ e.outcome = "return"
          /\ ~results_equivalent(e.result, e.expected)
    \/ e.outcome \in {"raise", "noattr"}
C20_ClassFailureStopsAndIsNamed ==
    hshape = "class" =>
        \A k \in 1..Len(calls) :
            ClassStepFails(calls[k]) =>
                /\ k = Len(calls) /\ Exited /\ hstdout = <<>> /\ hexit # 0
                /\ diag.kind = "assert" /\ diag.case = calls[k].case
                /\ diag.step = calls[k].step /\ diag.method = calls[k].target

\* What holds of C20 on the code: the abort at once, with a non-zero exit
\* and no result line; the diagnostic names the case, the step and the
\* method when a value was not equivalent, and is the bare traceback of the
\* exception when a call or a lookup raised.
C20_HoldsForMismatch ==
    hshape = "class" =>
        \A k \in 1..Len(calls) :
            ClassStepFails(calls[k]) =>
                /\ k = Len(calls) /\ Exited /\ hstdout = <<>> /\ hexit # 0
                /\ calls[k].outcome = "return" =>
                      /\ diag.kind = "assert" /\ diag.case = calls[k].case
                      /\ diag.step = calls[k].step /\ diag.method = calls[k].target
C20_MethodRaised ==
    /\ hshape = "class" /\ Exited /\ calls # <<>>
    /\ LastCall.step >= 1 /\ LastCall.outcome = "raise" /\ diag = Uncaught

(***************************************************************************)
(* Properties of is_class_based_task (ClassifierSpec).                      *)
(***************************************************************************)

\* C9 as claimed: is_class_based_task is true iff the case list is not empty
\* and the first case's input is a two-element sequence whose first element
\* is a non-empty sequence whose first element is a string, whatever the
\* second element of that input and the later cases are.
C9_AsClaimed ==
    cls_result.done =>
        (cls_result.value <=>
            /\ test_cases # <<>>
            /\ test_cases[1][1].k = "list"
            /\ Len(test_cases[1][1].items) = 2
            /\ test_cases[1][1].items[1].k = "list"
            /\ test_cases[1][1].items[1].items # <<>>
            /\ Head(test_cases[1][1].items[1].items).k = "str")

\* C9 as amended: ... and whose second element is a sequence too; the
\* result depends on the first case only.
C9_ClassShapeOfFirstCase ==
    cls_result.done =>
        (cls_result.value <=>
            /\ test_cases # <<>>
            /\ test_cases[1][1].k = "list"
            /\ Len(test_cases[1][1].items) = 2
            /\ test_cases[1][1].items[1].k = "list"
            /\ test_cases[1][1].items[1].items # <<>>
            /\ Head(test_cases[1][1].items[1].items).k = "str"
            /\ test_cases[1][1].items[2].k = "list")
C9_Witness ==
    /\ cls_result.done /\ cls_result.value
    /\ Len(test_cases) > 1 /\ test_cases[2][1].k # "list"

(***************************************************************************)
(* Properties of extract_code (ExtractSpec).                                *)
(***************************************************************************)
\* a text without its leading and trailing whitespace
Trimmed(s) ==
    LET idx == {i \in 1..Len(s) : s[i] \notin {" ", "\n"}} IN
    IF idx = {} THEN <<>>
    ELSE SubSeq(s, CHOOSE i \in idx : \A j \in idx : i <= j,
                   CHOOSE i \in idx : \A j \in idx : i >= j)
LanguageTags == {<<"python">>, <<"Python">>}
ClosedBlocks == {i \in 1..Len(segments) : segments[i].kind = "block"}
TaggedBlocks == {i \in ClosedBlocks : segments[i].tag \in LanguageTags}
FirstOf(S) == CHOOSE i \in S : \A j \in S : i <= j
ClaimedCode ==
    IF TaggedBlocks # {} THEN Trimmed(segments[FirstOf(TaggedBlocks)].body)
    ELSE IF ClosedBlocks # {} THEN Trimmed(segments[FirstOf(ClosedBlocks)].body)
    ELSE Trimmed(response.chars)

\* C13: extract_code returns the trimmed interior of the first fenced block
\* tagged with the candidate language whenever there is one, also when an
\* untagged block comes earlier; otherwise the trimmed interior of the first
\* fenced block of any kind; otherwise the trimmed whole input.
C13_FirstTaggedElseFirstBlock ==
    (extracted.done /\ IsStr(response)) => extracted.value = ClaimedCode

\* What holds of C13 on the code: the same, for responses whose blocks carry
\* no info string or exactly the word python; any other info string is
\* returned as part of the code (all of it, or what follows the word python).
C13_HoldsForPlainInfoStrings ==
    (/\ extracted.done /\ IsStr(response)
     /\ \A i \in 1..Len(segments) : segments[i].tag \in {<<>>} \cup LanguageTags)
        => extracted.value = ClaimedCode
C13_TaggedAfterUntagged ==
    /\ extracted.done /\ Len(segments) = 2
    /\ segments[1] = Block(<<>>, <<"a">>) /\ segments[2] = Block(<<"python">>, <<"b">>)
    /\ extracted.value = <<"b">>

(***************************************************************************)
(* Properties of results_equivalent (EquivalenceSpec).                      *)
(***************************************************************************)
Compared == eq_ret.done
BothSeq == arg_result.k \in {"list", "tuple"} /\ arg_expected.k \in {"list", "tuple"}
BothDict == arg_result.k = "dict" /\ arg_expected.k = "dict"
BothStr == arg_result.k = "str" /\ arg_expected.k = "str"
BothIntOrFloat ==
    arg_result.k \in {"int", "float"} /\ arg_expected.k \in {"int", "float"}

\* C14: results_equivalent(v, v) is true for every literal value v: null,
\* boolean, integer, float, text, sequence, mapping and nestings of these.
C14_Reflexive == (Compared /\ arg_result = arg_expected) => eq_ret.value
C14_Witness ==
    /\ Compared /\ arg_result = arg_expected /\ eq_ret.value
    /\ arg_result.k = "list" /\ Len(arg_result.items) = 2
    /\ arg_result.items[1].k = "tuple" /\ arg_result.items[2].k = "float"

\* C15: two ordered sequences (list or tuple, in any combination) are
\* equivalent iff they have the same length and the elements at each
\* position are directly equal; the comparison does not go through the
\* relation again, so an element that differs only by a float within 1e-9,
\* by surrounding whitespace or by list against tuple makes the sequences
\* not equivalent, and the order of the elements matters.
C15_SequencesElementwiseDirect ==
    /\ (Compared /\ BothSeq) =>
          (eq_ret.value <=>
              /\ Len(arg_result.items) = Len(arg_expected.items)
              /\ \A i \in 1..Len(arg_result.items) :
                    PyEq(arg_result.items[i], arg_expected.items[i]))
    /\ (/\ Compared /\ BothSeq
        /\ Len(arg_result.items) = 1 /\ Len(arg_expected.items) = 1
        /\ \/ <<arg_result.items[1], arg_expected.items[1]>>
                  = <<FloatV(1, 1), IntV(1)>>
           \/ <<arg_result.items[1], arg_expected.items[1]>>
                  = <<StrV(<<" ", "x", " ">>), StrV(<<"x">>)>>
           \/ <<arg_result.items[1], arg_expected.items[1]>>
                  = <<TupleV(<<IntV(1)>>), ListV(<<IntV(1)>>)>>)
          => ~eq_ret.value
    /\ (/\ Compared /\ BothSeq /\ Len(arg_result.items) = 2
        /\ arg_expected.items = <<arg_result.items[2], arg_result.items[1]>>
        /\ arg_result.items[1] # arg_result.items[2])
          => ~eq_ret.value
C15_Witness ==
    /\ Compared /\ eq_ret.value
    /\ arg_result.k = "list" /\ arg_expected.k = "tuple"
    /\ Len(arg_result.items) = 2 /\ arg_result.items[1] # arg_result.items[2]

\* C16: two mappings are equivalent iff their key sets are identical and,
\* for every key, the two values are equivalent under the full relation, so
\* that a float within the tolerance or a text equal after trimming passes
\* as a mapping value.
C16_MappingsRecursive ==
    (Compared /\ BothDict) =>
        (eq_ret.value <=>
            /\ DOMAIN arg_result.m = DOMAIN arg_expected.m
            /\ \A key \in DOMAIN arg_result.m :
                  results_equivalent(arg_result.m[key], arg_expected.m[key]))
C16_Witness ==
    /\ Compared /\ BothDict /\ eq_ret.value
    /\ DOMAIN arg_result.m = {"a", "b"}
    /\ arg_result.m["a"] = StrV(<<" ", "x", " ">>) /\ arg_expected.m["a"] = StrV(<<"x">>)
    /\ arg_result.m["b"] = DictV([a |-> FloatV(1, 1)])
    /\ arg_expected.m["b"] = DictV([a |-> IntV(1)])

\* the difference of the two numbers, as numbers, is below 1e-9
ExactDiffBelowTol(a, b) ==
    /\ ("big" \in DOMAIN a) = ("big" \in DOMAIN b)
    /\ a.n = b.n
    /\ LET ea == IF a.k = "float" THEN a.eps ELSE 0
           eb == IF b.k = "float" THEN b.eps ELSE 0
       IN  ea - eb < TolUnits /\ eb - ea < TolUnits

\* C17: two numbers (integer or floating, in any combination) are
\* equivalent iff their absolute difference is strictly below 1e-9: a
\* difference of exactly 1e-9 or more is rejected, and integer 3 is
\* equivalent to float 3.0.
C17_NumbersWithinTolerance ==
    (Compared /\ BothIntOrFloat) =>
        (eq_ret.value <=> ExactDiffBelowTol(arg_result, arg_expected))

\* What holds of C17 on the code: the same for numbers that a float holds
\* exactly; an int beyond 2^53 is rounded when it is subtracted from a float.
C17_HoldsWithinFloatPrecision ==
    (/\ Compared /\ BothIntOrFloat
     /\ "big" \notin DOMAIN arg_result /\ "big" \notin DOMAIN arg_expected) =>
        (eq_ret.value <=> ExactDiffBelowTol(arg_result, arg_expected))
C17_AtTheTolerance ==
    /\ Compared /\ ~eq_ret.value
    /\ arg_result = IntV(1) /\ arg_expected = FloatV(1, TolUnits)

\* C18: two texts are equivalent iff they are identical once the leading
\* and trailing whitespace of each is removed; a difference in interior
\* whitespace is not tolerated.
C18_TextTrimmed ==
    (Compared /\ BothStr) =>
        (eq_ret.value <=> Trimmed(arg_result.chars) = Trimmed(arg_expected.chars))
C18_Witness ==
    /\ Compared /\ eq_ret.value
    /\ arg_result = StrV(<<" ", "x", " ">>) /\ arg_expected = StrV(<<"x">>)

\* C21: in the class driver a case whose methods, args_list and
\* expected_list do not all have the same length aborts with the
\* length-mismatch diagnostic before the constructor or any method of that
\* case is invoked, and the task is failed: non-zero exit, no result line.
C21_LengthMismatchAbortsBeforeCalls ==
    hshape = "class" =>
        \A c \in 0..(Len(CASES) - 1) :
            LET cs == CASES[c + 1] IN
            (/\ htotal > c
             /\ Cardinality({Len(cs.methods), Len(cs.args_list),
                             Len(cs.expected_list)}) > 1) =>
                /\ Exited /\ hexit # 0 /\ hstdout = <<>>
                /\ diag.kind = "assert" /\ diag.msg = "length" /\ diag.case = c
                /\ \A k \in 1..Len(calls) : calls[k].case # c
C21_MismatchInSecondCase ==
    /\ hshape = "class" /\ Exited /\ htotal = 2
    /\ Len(CASES[2].methods) = Len(CASES[2].args_list)
    /\ Len(CASES[2].methods) # Len(CASES[2].expected_list)
    /\ diag.msg = "length" /\ diag.case = 1
    /\ calls # <<>>

\* the functions the candidate defines itself, in definition order, without
\* the driver's own names and the names that begin with two underscores
UserDefined ==
    SelectSeq(hglobals, LAMBDA g :
        /\ g.kind = "function" /\ g.origin = "def"
        /\ g.name \notin {"results_equivalent", "find_user_function", "__run_tests__", "__h"})
\* every object of type function in the namespace, imported ones included
FunctionObjects ==
    SelectSeq(hglobals, LAMBDA g :
        /\ g.kind = "function"
        /\ g.name \notin {"results_equivalent", "find_user_function", "__run_tests__", "__h"})
Resolved == hshape = "func" /\ hpc # "resolve"
\* the resolution the claim describes, over the sequence U of scanned functions
ResolvedAsClaimed(U) ==
    IF \E i \in 1..Len(hglobals) : hglobals[i].name = EntryName
    THEN /\ \E i \in 1..Len(hglobals) :
               hglobals[i].name = EntryName /\ fn = hglobals[i]
         /\ diag.msg # "nofunction"
    ELSE IF Len(U) = 0
    THEN /\ Exited /\ hexit # 0 /\ hstdout = <<>> /\ calls = <<>>
         /\ diag.kind = "assert" /\ diag.msg = "nofunction"
    ELSE /\ diag.msg # "nofunction"
         /\ IF Len(U) > 1 /\ \E i \in 1..Len(U) : U[i].fname = EntryName
            THEN fn.fname = EntryName /\ \E i \in 1..Len(U) : fn = U[i]
            ELSE fn = U[1]

\* C22: in the function driver the object bound to the entry-point name is
\* used if the candidate defines it, with no scan; otherwise the functions
\* the candidate defines are scanned (without the driver's own and the
\* double-underscore names): the only one found is used; of several, the one
\* whose name equals the entry point, else the first; with none found the
\* driver aborts with a diagnostic before any case is run.
C22_EntryPointResolution == Resolved => ResolvedAsClaimed(UserDefined)

\* What holds of C22 on the code: the same with the scan taking every object
\* of type function in the namespace, the functions the candidate imported
\* from Python-written libraries included.
C22_HoldsOverAllFunctionObjects == Resolved => ResolvedAsClaimed(FunctionObjects)
C22_ImportedFunctionChosen ==
    /\ Resolved /\ fn.origin = "import" /\ Len(UserDefined) = 1
    /\ calls # <<>>
C22_NameMatchPreferred ==
    /\ Resolved /\ Len(UserDefined) = 2 /\ fn = UserDefined[2]
    /\ fn.fname = EntryName /\ calls # <<>>
C22_NoneFound ==
    /\ Resolved /\ Exited /\ diag.msg = "nofunction" /\ hglobals # <<>>

\* C23: in the function driver a case whose input is an ordered sequence of
\* k elements invokes the entry point with exactly those k elements as
\* positional arguments, in order (no argument for the empty sequence), and
\* a case whose input is any other value (number, text, mapping, null)
\* invokes it with that value as the single argument.
C23_SequenceSpreadElseSingle ==
    hshape = "func" =>
        \A k \in 1..Len(calls) :
            LET input == CASES[calls[k].case + 1].args
                passed_args == calls[k].args
            IN  IF input.k = "list"
                THEN /\ Len(passed_args) = Len(input.items)
                     /\ \A i \in 1..Len(passed_args) : passed_args[i] = input.items[i]
                ELSE Len(passed_args) = 1 /\ passed_args[1] = input
C23_EveryKindOfInput ==
    /\ hshape = "func" /\ Len(calls) = 2
    /\ calls[1].args = <<V1, NoneV>>
    /\ calls[2].args \in {<<>>, <<StrV(<<"x">>)>>, <<NoneV>>}

\* the kind of a JSON value: null, boolean, number, text, sequence, mapping
KindOf(v) ==
    CASE v.k = "none" -> "null"
      [] v.k = "bool" -> "boolean"
      [] v.k \in {"int", "float"} -> "number"
      [] v.k = "str" -> "text"
      [] v.k \in {"list", "tuple"} -> "sequence"
      [] v.k = "set" -> "set"
      [] OTHER -> "mapping"
\* the same, a boolean counted as the number it is in Python
KindWithBoolAsNumber(v) == IF v.k = "bool" THEN "number" ELSE KindOf(v)

\* C24: two values that are not directly equal and belong to different
\* value kinds (text and number, sequence and mapping, null and a non-null
\* value, sequence and text, ...) are never equivalent.
C24_DifferentKindsNeverEquivalent ==
    (/\ Compared /\ KindOf(arg_result) # KindOf(arg_expected)
     /\ ~PyEq(arg_result, arg_expected)) => ~eq_ret.value

\* What holds of C24 on the code: the same with a boolean taken as a number,
\* which rule 7 does (isinstance(True, int) holds).
C24_HoldsWithBooleansAsNumbers ==
    (/\ Compared
     /\ KindWithBoolAsNumber(arg_result) # KindWithBoolAsNumber(arg_expected))
        => ~eq_ret.value
C24_BooleanNearNumber ==
    /\ Compared /\ eq_ret.value
    /\ arg_result = FloatV(1, 1) /\ arg_expected = BoolV(TRUE)
C24_TextAgainstNumber ==
    /\ Compared /\ ~eq_ret.value
    /\ arg_result \in StrAtoms /\ arg_expected = IntV(1)

BothSet == arg_result.k = "set" /\ arg_expected.k = "set"

\* C25: the evaluator's results_equivalent and the copies embedded in the
\* function harness and in the class harness return the same boolean for
\* every pair of values, although the copies have no rule for sets.
C25_ThreeCopiesAgree ==
    Compared =>
        /\ eq_ret.in_function_harness = eq_ret.value
        /\ eq_ret.in_class_harness = eq_ret.value
C25_UnequalSets ==
    /\ Compared /\ BothSet /\ ~eq_ret.value /\ ~eq_ret.in_function_harness
    /\ arg_result.elems # {} /\ arg_result.elems \subseteq arg_expected.elems
    /\ arg_result # arg_expected

\* C26: results_equivalent is symmetric: for all values a and b built from
\* null, booleans, numbers, text, sequences and mappings,
\* results_equivalent(a, b) = results_equivalent(b, a), although the rule
\* for mappings iterates over the keys of its first argument only.
C26_Symmetric ==
    (/\ Compared
     /\ arg_result.k # "set" /\ arg_expected.k # "set") =>
        eq_ret.value = eq_ret.swapped
C26_KeysOfFirstWithinSecond ==
    /\ Compared /\ BothDict
    /\ DOMAIN arg_result.m = {"a"} /\ DOMAIN arg_expected.m = {"a", "b"}
    /\ arg_result.m["a"] = FloatV(1, 1) /\ arg_expected.m["a"] = IntV(1)
    /\ ~eq_ret.value /\ ~eq_ret.swapped

============================================================================
